---- MODULE Spec2Model ----
(***************************************************************************)
(* budget-chat: the chat room registry of src/chatroom.rs (ChatroomImpl:   *)
(* join, new_session_id, leave, send_message, behind two parking_lot       *)
(* mutexes) driven by the connection threads of src/main.rs (chat).        *)
(*                                                                         *)
(* Strings are sequences of Unicode scalar values, so that trim() and the  *)
(* nickname check act on characters as the code does.                      *)
(***************************************************************************)
EXTENDS Integers, Sequences, FiniteSets, TLC

\* ------------------------------------------------------------------ bounds
\* Connections accepted by main (one thread and one channel each).
MaxConns == 3
\* Calls of join, send_message and leave made over all connections.
MaxCalls == 5
\* SpecApi: handles of no session through which a thread calls again.
MaxStale == 1
\* SpecSink: receivers dropped while their sender may still be used.
MaxClosed == 1

Conns == 1..MaxConns

\* ------------------------------------------------------------------ inputs
alice == <<97, 108, 105, 99, 101>>
bob == <<98, 111, 98>>
Bob == <<66, 111, 98>>
\* What read_line returns for the first line of a connection (newline kept).
NickLines ==
  { alice \o <<10>>,            \* "alice\n"
    <<32>> \o bob \o <<13, 10>>, \* " bob\r\n"
    Bob \o <<10>>,              \* "Bob\n"
    <<10>>,                     \* "\n"
    <<97, 32, 98, 10>>,         \* "a b\n"
    <<233, 10>>,                \* "e-acute\n", a non-ASCII letter
    <<1633, 10>>,               \* an Arabic-Indic digit
    <<97, 64, 10>>,             \* "a@\n"
    <<90, 91, 10>>,             \* "Z[\n"
    <<96, 97, 10>>,             \* "`a\n"
    <<122, 123, 10>>,           \* "z{\n"
    <<47, 48, 10>>,             \* "/0\n"
    <<57, 58, 10>> }            \* "9:\n"
\* What lines() yields for the later lines (newline already stripped).
ChatLines ==
  { <<104, 105>>,               \* "hi"
    <<32, 121, 111>>,           \* " yo"
    <<>> }                      \* ""

\* ---------------------------------------------------------- pure helpers
\* char::is_whitespace, as used by str::trim (Unicode White_Space).
IsWhitespace(ch) ==
  \/ ch \in 9..13
  \/ ch \in {32, 133, 160, 5760, 8232, 8233, 8239, 8287, 12288}
  \/ ch \in 8192..8202

RECURSIVE TrimStart(_)
TrimStart(s) ==
  IF s = <<>> THEN s
  ELSE IF IsWhitespace(Head(s)) THEN TrimStart(Tail(s)) ELSE s

RECURSIVE TrimEnd(_)
TrimEnd(s) ==
  IF s = <<>> THEN s
  ELSE IF IsWhitespace(s[Len(s)]) THEN TrimEnd(SubSeq(s, 1, Len(s) - 1)) ELSE s

\* str::trim followed by to_string.
Trim(s) == TrimEnd(TrimStart(s))

\* The closure written with char::is_alphanumeric, which also accepts the
\* letters and digits outside ASCII (those of NickLines are listed).
NotAlphanumericUnicode(ch) ==
  ch \notin (48..57) \cup (65..90) \cup (97..122) \cup {233, 1633}

\* The closure of the nickname check: true of a character that is none of
\* a-z, A-Z, 0-9.
NotAlphanumeric(ch) ==
  /\ (ch < 97 \/ ch > 122)
  /\ (ch < 65 \/ ch > 90)
  /\ (ch < 48 \/ ch > 57)

\* The condition under which join returns Err(InvalidNickname).
InvalidNickname(nickname) ==
  \/ Len(nickname) = 0
  \/ \E i \in 1..Len(nickname) : NotAlphanumeric(nickname[i])

\* The Message enum.
Joined(nick) == [type |-> "Joined", nick |-> nick]
Left(nick) == [type |-> "Left", nick |-> nick]
ConnectedUsers(users) == [type |-> "ConnectedUsers", users |-> users]
ChatMessage(from, text) == [type |-> "Message", from |-> from, text |-> text]

\* One delivery on a channel: the message, and (history only) the number of
\* the registry operation that sent it, counted in the order in which the
\* operations locked connected_users.
Delivery(m, o) == [msg |-> m, op |-> o]

\* The orders in which a HashMap holding the keys ids may be iterated.
Orderings(ids) ==
  { f \in [1..Cardinality(ids) -> ids] :
      \A i, j \in 1..Cardinality(ids) : i # j => f[i] # f[j] }

\* Sender::send of m on the channel of connection d: queued while the
\* receiver lives, an Err (ignored by every caller) once it is dropped.
SenderSend(ch, rcv, d, m, o) ==
  IF rcv[d] = "open"
  THEN [ch EXCEPT ![d] = Append(@, Delivery(m, o))]
  ELSE ch

\* A loop that gives up at the first send that fails ("sender.send(m)?"),
\* when the records of closed channels come first in the iteration.
SendEachStopAtErr(ch, rcv, users, ids, m, o) ==
  [d \in DOMAIN ch |->
     IF \A id \in ids : rcv[users[id].sender] = "open"
     THEN ch[d] \o [i \in 1..Cardinality({id \in ids : users[id].sender = d})
                      |-> Delivery(m, o)]
     ELSE ch[d]]

\* "for (_, sender) in ... { let _ = sender.send(m) }" over the records ids
\* of table users: one send per record, on that record's sender.
SendEach(ch, rcv, users, ids, m, o) ==
  [d \in DOMAIN ch |->
     IF rcv[d] = "open"
     THEN ch[d] \o [i \in 1..Cardinality({id \in ids : users[id].sender = d})
                      |-> Delivery(m, o)]
     ELSE ch[d]]

\* HashMap::insert.
Insert(users, id, rec) ==
  [k \in DOMAIN users \cup {id} |-> IF k = id THEN rec ELSE users[k]]

\* HashMap::remove (the table that is left).
Remove(users, id) == [k \in DOMAIN users \ {id} |-> users[k]]

\* A join whose loop over the records is left out.
DuplicateNicknameNotChecked(users, nickname) == FALSE

\* The test of the duplicate loop of join: some record carries nickname.
DuplicateNickname(users, nickname) ==
  \E id \in DOMAIN users : users[id].nickname = nickname

\* The Vec collected from connected_users.values(), iterated in order.
Nicknames(users, order) == [i \in DOMAIN order |-> users[order[i]].nickname]

\* ------------------------------------------- the operations, run alone
\* Each takes the table, the channels and the receivers' state, and gives
\* the table and channels it leaves, as one uninterrupted execution of the
\* function's body does.  panicked tells whether the body unwinds.

\* ChatroomImpl::join for a nickname that passed the character check; order
\* is the iteration order of the table, count the value of session_count.
join(users, ch, rcv, count, nickname, d, order, o) ==
  IF DuplicateNickname(users, nickname)
  THEN [result |-> "DuplicateNickname", users |-> users, chan |-> ch,
        count |-> count, panicked |-> FALSE]
  ELSE LET ch1 == SenderSend(ch, rcv, d,
                             ConnectedUsers(Nicknames(users, order)), o)
           ch2 == SendEach(ch1, rcv, users, DOMAIN users, Joined(nickname), o)
       IN [result |-> "Ok",
           users |-> Insert(users, count + 1,
                            [nickname |-> nickname, sender |-> d]),
           chan |-> ch2, count |-> count + 1, panicked |-> FALSE]

\* A leave that unwraps the removed record: it unwinds when there is none.
leave_unwrap(users, ch, rcv, session, o) ==
  IF session \in DOMAIN users
  THEN [users |-> Remove(users, session),
        chan |-> SendEach(ch, rcv, Remove(users, session),
                          DOMAIN users \ {session},
                          Left(users[session].nickname), o),
        panicked |-> FALSE]
  ELSE [users |-> users, chan |-> ch, panicked |-> TRUE]

\* A leave that removes the record and tells nobody.
leave_silent(users, ch, rcv, session, o) ==
  IF session \in DOMAIN users
  THEN [users |-> Remove(users, session), chan |-> ch, panicked |-> FALSE]
  ELSE [users |-> users, chan |-> ch, panicked |-> FALSE]

\* A leave that sends Left before it removes the record.
leave_send_first(users, ch, rcv, session, o) ==
  IF session \in DOMAIN users
  THEN [users |-> Remove(users, session),
        chan |-> SendEach(ch, rcv, users, DOMAIN users,
                          Left(users[session].nickname), o),
        panicked |-> FALSE]
  ELSE [users |-> users, chan |-> ch, panicked |-> FALSE]

\* ChatroomImpl::leave.
leave(users, ch, rcv, session, o) ==
  IF session \in DOMAIN users
  THEN [users |-> Remove(users, session),
        chan |-> SendEach(ch, rcv, Remove(users, session),
                          DOMAIN users \ {session},
                          Left(users[session].nickname), o),
        panicked |-> FALSE]
  ELSE [users |-> users, chan |-> ch, panicked |-> FALSE]

\* A send_message whose loop does not skip the sender's own record.
send_message_echo(users, ch, rcv, from, text, o) ==
  IF from \in DOMAIN users
  THEN [users |-> users,
        chan |-> SendEach(ch, rcv, users, DOMAIN users,
                          ChatMessage(users[from].nickname, text), o),
        panicked |-> FALSE]
  ELSE [users |-> users, chan |-> ch, panicked |-> FALSE]

\* ChatroomImpl::send_message.
send_message(users, ch, rcv, from, text, o) ==
  IF from \in DOMAIN users
  THEN [users |-> users,
        chan |-> SendEach(ch, rcv, users, DOMAIN users \ {from},
                          ChatMessage(users[from].nickname, text), o),
        panicked |-> FALSE]
  ELSE [users |-> users, chan |-> ch, panicked |-> FALSE]

\* ------------------------------------------------------------------- state
VARIABLES
  connected_users,  \* ChatroomImpl.connected_users: SessionId -> (nickname, sender)
  users_lock,       \* holder of the connected_users mutex, 0 when free
  session_count,    \* ChatroomImpl.session_count
  count_lock,       \* holder of the session_count mutex, 0 when free
  chan,             \* per connection: every delivery made on its channel, in order
  receiver,         \* per connection: "none", "open", "dropped" after the
                    \* sender, or "closed" before it (SpecSink)
  pc,               \* per connection thread: where it is in chat / the registry
  nickname,         \* per thread: the trimmed nickname
  nicknames,        \* per thread: join's local Vec of nicknames
  session_id,       \* per thread: join's local session_id, 0 before it is set
  session,          \* per thread: Session.id of the handle it owns, 0 if none
  text,             \* per thread: the trimmed line passed to send_message
  result,           \* per thread: what join returned, "none" before
  panicked,         \* threads that unwound inside a registry operation
  calls,            \* calls of the registry made so far (bounded by MaxCalls)
  stale,            \* SpecApi only: calls made through a handle of no session
  ops,              \* history: registry operations that locked connected_users
  op,               \* history: per thread, the number of its current operation
  seq,              \* history: the operations so far run alone, in commit order
  raced,            \* history: pairs of overlapping joins under one free nickname
  wire,             \* per connection: the messages its relay thread wrote out
  scenario          \* history: calls of Scenario made so far, -1 once off it

registry == <<connected_users, session_count, chan>>
locks == <<users_lock, count_lock>>
locals == <<nickname, nicknames, session_id, session, text, result>>
bounded == <<calls, stale>>
hist == <<ops, op, seq, raced>>

vars == <<registry, locks, receiver, pc, locals, panicked, bounded, hist,
          wire, scenario>>

Init ==
  /\ connected_users = <<>>
  /\ users_lock = 0
  /\ session_count = 0
  /\ count_lock = 0
  /\ chan = [c \in Conns |-> <<>>]
  /\ receiver = [c \in Conns |-> "none"]
  /\ pc = [c \in Conns |-> "start"]
  /\ nickname = [c \in Conns |-> <<>>]
  /\ nicknames = [c \in Conns |-> <<>>]
  /\ session_id = [c \in Conns |-> 0]
  /\ session = [c \in Conns |-> 0]
  /\ text = [c \in Conns |-> <<>>]
  /\ result = [c \in Conns |-> "none"]
  /\ panicked = {}
  /\ calls = 0
  /\ stale = 0
  /\ ops = 0
  /\ op = [c \in Conns |-> 0]
  /\ seq = [users |-> <<>>, chan |-> [c \in Conns |-> <<>>], count |-> 0,
            ok |-> TRUE]
  /\ raced = {}
  /\ wire = [c \in Conns |-> <<>>]
  /\ scenario = 0

\* ------------------------------------------------------ history: commits
\* The record seq after one more operation has run alone on it.
Commit(r) == [users |-> r.users, chan |-> r.chan, count |-> seq.count,
              ok |-> seq.ok /\ ~r.panicked]

\* join by thread c, run alone on seq, iterating the table in an order that
\* gives the Vec the thread really built (any order if it built none); ok
\* turns FALSE when no such run returns what the thread's join returned.
CommitJoin(c, returned) ==
  LET ords == { o \in Orderings(DOMAIN seq.users) :
                  returned = "Ok" => Nicknames(seq.users, o) = nicknames[c] }
  IN IF ords = {}
     THEN [seq EXCEPT !.ok = FALSE]
     ELSE LET r == join(seq.users, seq.chan, receiver, seq.count,
                        nickname[c], c, CHOOSE o \in ords : TRUE, op[c])
          IN [users |-> r.users, chan |-> r.chan, count |-> r.count,
              ok |-> seq.ok /\ r.result = returned /\ ~r.panicked]

\* The positions inside join, from its call to its return.
JoinPcs == {"join_lock", "join_dup", "join_roster", "join_bcast",
            "new_session_id", "session_count_inc", "join_insert"}

\* The joins in progress that a call of join with nick by c overlaps, when
\* no record carries nick at the call.
Overlapped(c, nick) ==
  IF DuplicateNickname(connected_users, nick)
  THEN {}
  ELSE { {c, d} : d \in { b \in Conns \ {c} :
                            pc[b] \in JoinPcs /\ nickname[b] = nick } }

\* ---------------------------------------------------- history: scenario
\* The calls of the scenario of section 8: alice joins on the first
\* connection, bob on the second, alice sends "hi", bob leaves, alice sends
\* "yo".
Scenario ==
  << [call |-> "join", conn |-> 1, arg |-> alice],
     [call |-> "join", conn |-> 2, arg |-> bob],
     [call |-> "send_message", conn |-> 1, arg |-> <<104, 105>>],
     [call |-> "leave", conn |-> 2, arg |-> <<>>],
     [call |-> "send_message", conn |-> 1, arg |-> <<121, 111>>] >>

\* No call of the registry is in progress.
Quiet == \A c \in Conns : pc[c] \in {"start", "chatting", "ended"}

\* scenario after one more call: one further if the calls so far are those
\* of Scenario, each made after the one before returned, and this call is
\* the next of them; -1 otherwise.
Follow(call, c, arg) ==
  IF /\ scenario \in 0..(Len(Scenario) - 1)
     /\ Quiet
     /\ Scenario[scenario + 1] = [call |-> call, conn |-> c, arg |-> arg]
  THEN scenario + 1
  ELSE -1

\* ------------------------------------------------------------ the threads
\* Connections are numbered in the order in which their joins are decided:
\* refused for the nickname's characters, or admitted to the mutex.
Earlier(c) == \A b \in Conns : b < c => pc[b] \notin {"start", "join_lock"}

\* A lock that does not wait for its holder to release it.
LockNoWait(c) ==
  /\ users_lock' = c
  /\ ops' = ops + 1
  /\ op' = [op EXCEPT ![c] = ops + 1]

\* self.connected_users.lock(): wait for the mutex and take it.  The
\* operation gets its number.
Lock(c) ==
  /\ users_lock = 0
  /\ users_lock' = c
  /\ ops' = ops + 1
  /\ op' = [op EXCEPT ![c] = ops + 1]

\* chat, up to the call of join: the nickname line is read and trimmed, the
\* channel is created, and join checks the characters of the nickname.  An
\* Err(InvalidNickname) ends the connection: chat returns, which drops the
\* receiver and the nickname.
StartJoin(c, line) ==
  /\ pc[c] = "start"
  /\ calls < MaxCalls
  /\ calls' = calls + 1
  /\ scenario' = Follow("join", c, Trim(line))
  /\ InvalidNickname(Trim(line)) => Earlier(c)
  /\ IF InvalidNickname(Trim(line))
     THEN /\ result' = [result EXCEPT ![c] = "InvalidNickname"]
          /\ receiver' = [receiver EXCEPT ![c] = "dropped"]
          /\ pc' = [pc EXCEPT ![c] = "ended"]
          /\ UNCHANGED <<nickname, raced>>
     ELSE /\ nickname' = [nickname EXCEPT ![c] = Trim(line)]
          /\ receiver' = [receiver EXCEPT ![c] = "open"]
          /\ pc' = [pc EXCEPT ![c] = "join_lock"]
          /\ raced' = raced \cup Overlapped(c, Trim(line))
          /\ UNCHANGED result
  /\ UNCHANGED <<wire, registry, locks, nicknames, session_id, session, text,
                 panicked, stale, ops, op, seq>>

\* join: self.connected_users.lock().
JoinLock(c) ==
  /\ pc[c] = "join_lock"
  /\ Earlier(c)
  /\ Lock(c)
  /\ pc' = [pc EXCEPT ![c] = "join_dup"]
  /\ UNCHANGED <<wire, scenario, registry, count_lock, receiver, locals, panicked, bounded,
                 seq, raced>>

\* A join that sends ConnectedUsers before it looks for the nickname.
JoinCheckDupAfterRoster(c) ==
  /\ pc[c] = "join_dup"
  /\ \E order \in Orderings(DOMAIN connected_users) :
       chan' = SenderSend(chan, receiver, c,
                          ConnectedUsers(Nicknames(connected_users, order)),
                          op[c])
  /\ IF DuplicateNickname(connected_users, nickname[c])
     THEN /\ result' = [result EXCEPT ![c] = "DuplicateNickname"]
          /\ receiver' = [receiver EXCEPT ![c] = "dropped"]
          /\ users_lock' = 0
          /\ pc' = [pc EXCEPT ![c] = "ended"]
          /\ seq' = CommitJoin(c, "DuplicateNickname")
     ELSE /\ pc' = [pc EXCEPT ![c] = "join_roster"]
          /\ UNCHANGED <<result, receiver, users_lock, seq>>
  /\ UNCHANGED <<wire, scenario, connected_users, session_count, count_lock,
                 nickname, nicknames, session_id, session, text, panicked,
                 bounded, ops, op, raced>>

\* join: the loop that looks for the nickname.  On a match join returns
\* Err(DuplicateNickname), which releases the mutex and drops the sender;
\* chat then returns and drops the receiver.
JoinCheckDup(c) ==
  /\ pc[c] = "join_dup"
  /\ IF DuplicateNickname(connected_users, nickname[c])
     THEN /\ result' = [result EXCEPT ![c] = "DuplicateNickname"]
          /\ receiver' = [receiver EXCEPT ![c] = "dropped"]
          /\ users_lock' = 0
          /\ pc' = [pc EXCEPT ![c] = "ended"]
          /\ seq' = CommitJoin(c, "DuplicateNickname")
     ELSE /\ pc' = [pc EXCEPT ![c] = "join_roster"]
          /\ UNCHANGED <<result, receiver, users_lock, seq>>
  /\ UNCHANGED <<wire, scenario, registry, count_lock, nickname, nicknames, session_id,
                 session, text, panicked, bounded, ops, op, raced>>

\* A join that collects the nicknames and does not send them.
JoinRosterNotSent(c) ==
  /\ pc[c] = "join_roster"
  /\ \E order \in Orderings(DOMAIN connected_users) :
       nicknames' = [nicknames EXCEPT
                       ![c] = Nicknames(connected_users, order)]
  /\ pc' = [pc EXCEPT ![c] = "join_bcast"]
  /\ UNCHANGED <<wire, scenario, registry, locks, receiver, nickname,
                 session_id, session, text, result, panicked, bounded, hist>>

\* join: collect the nicknames and send ConnectedUsers to the joining user.
JoinRoster(c) ==
  /\ pc[c] = "join_roster"
  /\ \E order \in Orderings(DOMAIN connected_users) :
       /\ nicknames' = [nicknames EXCEPT
                          ![c] = Nicknames(connected_users, order)]
       /\ chan' = SenderSend(chan, receiver, c,
                             ConnectedUsers(Nicknames(connected_users, order)),
                             op[c])
  /\ pc' = [pc EXCEPT ![c] = "join_bcast"]
  /\ UNCHANGED <<wire, scenario, connected_users, session_count, locks, receiver, nickname,
                 session_id, session, text, result, panicked, bounded, hist>>

\* A join that registers the joining user before it sends Joined, so that
\* the loop reaches the joiner's own sender too.
JoinBroadcastWithJoiner(c) ==
  /\ pc[c] = "join_bcast"
  /\ chan' = SendEach(chan, receiver,
                      Insert(connected_users, 0,
                             [nickname |-> nickname[c], sender |-> c]),
                      DOMAIN connected_users \cup {0},
                      Joined(nickname[c]), op[c])
  /\ pc' = [pc EXCEPT ![c] = "new_session_id"]
  /\ UNCHANGED <<wire, scenario, connected_users, session_count, locks, receiver, locals,
                 panicked, bounded, hist>>

\* join: send Joined to all connected users.
JoinBroadcast(c) ==
  /\ pc[c] = "join_bcast"
  /\ chan' = SendEach(chan, receiver, connected_users, DOMAIN connected_users,
                      Joined(nickname[c]), op[c])
  /\ pc' = [pc EXCEPT ![c] = "new_session_id"]
  /\ UNCHANGED <<wire, scenario, connected_users, session_count, locks, receiver, locals,
                 panicked, bounded, hist>>

\* A new_session_id that locks connected_users, which its caller holds (the
\* mutex is not reentrant).
NewSessionIdRelock(c) ==
  /\ pc[c] = "new_session_id"
  /\ users_lock = 0
  /\ count_lock' = c
  /\ pc' = [pc EXCEPT ![c] = "session_count_inc"]
  /\ UNCHANGED <<wire, scenario, registry, users_lock, receiver, locals,
                 panicked, bounded, hist>>

\* new_session_id: self.session_count.lock().
NewSessionIdLock(c) ==
  /\ pc[c] = "new_session_id"
  /\ count_lock = 0
  /\ count_lock' = c
  /\ pc' = [pc EXCEPT ![c] = "session_count_inc"]
  /\ UNCHANGED <<wire, scenario, registry, users_lock, receiver, locals, panicked, bounded,
                 hist>>

\* A new_session_id that numbers the session after the size of the table.
NewSessionIdFromLen(c) ==
  /\ pc[c] = "session_count_inc"
  /\ session_count' = session_count + 1
  /\ session_id' = [session_id EXCEPT
                      ![c] = Cardinality(DOMAIN connected_users) + 1]
  /\ count_lock' = 0
  /\ pc' = [pc EXCEPT ![c] = "join_insert"]
  /\ UNCHANGED <<wire, scenario, connected_users, chan, users_lock, receiver,
                 nickname, nicknames, session, text, result, panicked,
                 bounded, hist>>

\* new_session_id: increment, return the new value, release the mutex.
NewSessionIdInc(c) ==
  /\ pc[c] = "session_count_inc"
  /\ session_count' = session_count + 1
  /\ session_id' = [session_id EXCEPT ![c] = session_count + 1]
  /\ count_lock' = 0
  /\ pc' = [pc EXCEPT ![c] = "join_insert"]
  /\ UNCHANGED <<wire, scenario, connected_users, chan, users_lock, receiver, nickname,
                 nicknames, session, text, result, panicked, bounded, hist>>

\* join: insert the record and return Ok(session_id), releasing the mutex;
\* Chatroom::join wraps the id in the Session that chat then owns.
JoinInsert(c) ==
  /\ pc[c] = "join_insert"
  /\ connected_users' = Insert(connected_users, session_id[c],
                               [nickname |-> nickname[c], sender |-> c])
  /\ session' = [session EXCEPT ![c] = session_id[c]]
  /\ result' = [result EXCEPT ![c] = "Ok"]
  /\ users_lock' = 0
  /\ pc' = [pc EXCEPT ![c] = "chatting"]
  /\ seq' = CommitJoin(c, "Ok")
  /\ UNCHANGED <<wire, scenario, session_count, chan, count_lock, receiver, nickname,
                 nicknames, session_id, text, panicked, bounded, ops, op,
                 raced>>

\* chat: the next line of the connection is read and trimmed, and
\* session.send_message is called with it.
ReadLine(c, line) ==
  /\ pc[c] = "chatting"
  /\ calls < MaxCalls
  /\ calls' = calls + 1
  /\ scenario' = Follow("send_message", c, Trim(line))
  /\ text' = [text EXCEPT ![c] = Trim(line)]
  /\ pc' = [pc EXCEPT ![c] = "send_lock"]
  /\ UNCHANGED <<wire, registry, locks, receiver, nickname, nicknames, session_id,
                 session, result, panicked, stale, hist>>

\* send_message: self.connected_users.lock().
SendLock(c) ==
  /\ pc[c] = "send_lock"
  /\ Lock(c)
  /\ pc' = [pc EXCEPT ![c] = "send_body"]
  /\ UNCHANGED <<wire, scenario, registry, count_lock, receiver, locals, panicked, bounded,
                 seq, raced>>

\* send_message: look the sender up, send to the others, release the mutex.
SendBody(c) ==
  /\ pc[c] = "send_body"
  /\ LET r == send_message(connected_users, chan, receiver, session[c],
                           text[c], op[c])
     IN /\ connected_users' = r.users
        /\ chan' = r.chan
        /\ panicked' = IF r.panicked THEN panicked \cup {c} ELSE panicked
  /\ seq' = Commit(send_message(seq.users, seq.chan, receiver, session[c],
                                text[c], op[c]))
  /\ users_lock' = 0
  /\ text' = [text EXCEPT ![c] = <<>>]
  /\ pc' = [pc EXCEPT ![c] = "chatting"]
  /\ UNCHANGED <<wire, scenario, session_count, count_lock, receiver, nickname, nicknames,
                 session_id, session, result, bounded, ops, op, raced>>

\* A chat that forgets its Session (mem::forget) instead of dropping it.
DisconnectWithoutDrop(c) ==
  /\ pc[c] = "chatting"
  /\ calls < MaxCalls
  /\ calls' = calls + 1
  /\ scenario' = Follow("leave", c, <<>>)
  /\ pc' = [pc EXCEPT ![c] = "ended"]
  /\ UNCHANGED <<wire, registry, locks, receiver, locals, panicked, stale, hist>>

\* chat leaves the Ok arm: the line iterator ended, a read failed (break), or
\* the arm unwinds; the Session goes out of scope and Drop calls
\* leave(self.id).
Disconnect(c) ==
  /\ pc[c] = "chatting"
  /\ calls < MaxCalls
  /\ calls' = calls + 1
  /\ scenario' = Follow("leave", c, <<>>)
  /\ pc' = [pc EXCEPT ![c] = "leave_lock"]
  /\ UNCHANGED <<wire, registry, locks, receiver, locals, panicked, stale, hist>>

\* leave: self.connected_users.lock().
LeaveLock(c) ==
  /\ pc[c] = "leave_lock"
  /\ Lock(c)
  /\ pc' = [pc EXCEPT ![c] = "leave_body"]
  /\ UNCHANGED <<wire, scenario, registry, count_lock, receiver, locals, panicked, bounded,
                 seq, raced>>

\* leave: remove the record, send Left to the remaining users, release the
\* mutex; the Session is gone and chat returns.
LeaveBody(c) ==
  /\ pc[c] = "leave_body"
  /\ LET r == leave(connected_users, chan, receiver, session[c], op[c])
     IN /\ connected_users' = r.users
        /\ chan' = r.chan
        /\ panicked' = IF r.panicked THEN panicked \cup {c} ELSE panicked
  /\ seq' = Commit(leave(seq.users, seq.chan, receiver, session[c], op[c]))
  /\ users_lock' = 0
  /\ pc' = [pc EXCEPT ![c] = "ended"]
  /\ UNCHANGED <<wire, scenario, session_count, count_lock, receiver, locals, bounded, ops,
                 op, raced>>

Next ==
  \E c \in Conns :
    \/ \E line \in NickLines : StartJoin(c, line)
    \/ JoinLock(c)
    \/ JoinCheckDup(c)
    \/ JoinRoster(c)
    \/ JoinBroadcast(c)
    \/ NewSessionIdLock(c)
    \/ NewSessionIdInc(c)
    \/ JoinInsert(c)
    \/ \E line \in ChatLines : ReadLine(c, line)
    \/ SendLock(c)
    \/ SendBody(c)
    \/ Disconnect(c)
    \/ LeaveLock(c)
    \/ LeaveBody(c)

Spec == Init /\ [][Next]_vars

\* ---------------------------------------------------------- scheduling
\* The steps a thread takes by itself once it is inside a call, and the
\* steps in which it takes the connected_users mutex.
ThreadStep(c) ==
  \/ JoinCheckDup(c)
  \/ JoinRoster(c)
  \/ JoinBroadcast(c)
  \/ NewSessionIdLock(c)
  \/ NewSessionIdInc(c)
  \/ JoinInsert(c)
  \/ SendBody(c)
  \/ LeaveBody(c)

LockStep(c) == JoinLock(c) \/ SendLock(c) \/ LeaveLock(c)

\* Every thread keeps running (the OS scheduler), and a thread that waits
\* for the mutex gets it sooner or later (parking_lot hands a mutex over to
\* a waiting thread: eventual fairness).  Nothing makes a peer type a line
\* or close its connection.
Fairness ==
  \A c \in Conns : WF_vars(ThreadStep(c)) /\ SF_vars(LockStep(c))

FairSpec == Init /\ [][Next]_vars /\ Fairness

\* ------------------------------------- the registry under any caller
\* Session cannot be cloned and leave is private, so chat never calls the
\* registry through a handle whose session has left or never existed.
\* SpecApi adds such calls, to settle what leave and send_message do on
\* them: a thread whose connection ended gets a handle on any identity that
\* names no record, sends lines through it and drops it.
StaleHandle(c, id) ==
  /\ pc[c] = "ended"
  /\ stale < MaxStale
  /\ id \notin DOMAIN connected_users
  /\ stale' = stale + 1
  /\ session' = [session EXCEPT ![c] = id]
  /\ pc' = [pc EXCEPT ![c] = "chatting"]
  /\ UNCHANGED <<wire, scenario, registry, locks, receiver, nickname, nicknames, session_id,
                 text, result, panicked, calls, hist>>

\* The nickname lines and the chat lines of SpecApi.
ApiNickLines == { alice \o <<10>>, <<32>> \o bob \o <<13, 10>> }
ApiChatLines == { <<104, 105>> }

NextApi ==
  \E c \in Conns :
    \/ \E line \in ApiNickLines : StartJoin(c, line)
    \/ JoinLock(c)
    \/ JoinCheckDup(c)
    \/ JoinRoster(c)
    \/ JoinBroadcast(c)
    \/ NewSessionIdLock(c)
    \/ NewSessionIdInc(c)
    \/ JoinInsert(c)
    \/ \E line \in ApiChatLines : ReadLine(c, line)
    \/ SendLock(c)
    \/ SendBody(c)
    \/ Disconnect(c)
    \/ LeaveLock(c)
    \/ LeaveBody(c)
    \/ \E id \in 1..(session_count + 1) : StaleHandle(c, id)

SpecApi == Init /\ [][NextApi]_vars

\* ------------------------------------------- the registry and dead sinks
\* chat keeps the receiver of a channel until the registry has dropped its
\* sender, but Chatroom::join takes any Sender.  SpecSink adds callers whose
\* receiver is dropped early, before join or while registered, so that
\* Sender::send returns Err in join, leave and send_message.
DropReceiver(c) ==
  /\ receiver[c] = "open"
  /\ pc[c] # "ended"
  /\ Cardinality({ d \in Conns : receiver[d] = "closed" }) < MaxClosed
  /\ receiver' = [receiver EXCEPT ![c] = "closed"]
  /\ UNCHANGED <<wire, scenario, registry, locks, pc, locals, panicked,
                 bounded, hist>>

\* The nickname lines of SpecSink: three nicknames, for three records.
SinkNickLines == ApiNickLines \cup { Bob \o <<10>> }

NextSink ==
  \E c \in Conns :
    \/ \E line \in SinkNickLines : StartJoin(c, line)
    \/ JoinLock(c)
    \/ JoinCheckDup(c)
    \/ JoinRoster(c)
    \/ JoinBroadcast(c)
    \/ NewSessionIdLock(c)
    \/ NewSessionIdInc(c)
    \/ JoinInsert(c)
    \/ \E line \in ApiChatLines : ReadLine(c, line)
    \/ SendLock(c)
    \/ SendBody(c)
    \/ Disconnect(c)
    \/ LeaveLock(c)
    \/ LeaveBody(c)
    \/ DropReceiver(c)

SpecSink == Init /\ [][NextSink]_vars

\* The same with the two nicknames of ApiNickLines, under Fairness.
NextSinkLive ==
  \E c \in Conns :
    \/ \E line \in ApiNickLines : StartJoin(c, line)
    \/ JoinLock(c)
    \/ JoinCheckDup(c)
    \/ JoinRoster(c)
    \/ JoinBroadcast(c)
    \/ NewSessionIdLock(c)
    \/ NewSessionIdInc(c)
    \/ JoinInsert(c)
    \/ \E line \in ApiChatLines : ReadLine(c, line)
    \/ SendLock(c)
    \/ SendBody(c)
    \/ Disconnect(c)
    \/ LeaveLock(c)
    \/ LeaveBody(c)
    \/ DropReceiver(c)

FairSink == Init /\ [][NextSinkLive]_vars /\ Fairness

\* ------------------------------------------------------ the relay threads
\* chat spawns, once join returned Ok, a thread that owns the receiver and
\* the stream: "for message in receiver.iter()" takes the oldest queued
\* message and hands it to write! (whose result is ignored), and ends when
\* the queue is empty and the sender is gone.  The queue of connection c is
\* what chan[c] holds beyond the messages already in wire[c].  The sender
\* lives in the record of the session, so it is gone when the record is.

\* The relay thread of c is running.
Relaying(c) == result[c] = "Ok" /\ receiver[c] = "open"

RelayWrite(c) ==
  /\ Relaying(c)
  /\ Len(wire[c]) < Len(chan[c])
  /\ wire' = [wire EXCEPT ![c] = Append(@, chan[c][Len(@) + 1])]
  /\ UNCHANGED <<scenario, registry, locks, receiver, pc, locals, panicked,
                 bounded, hist>>

\* A relay loop over try_iter(), which ends as soon as the queue is empty.
RelayEndWhenEmpty(c) ==
  /\ Relaying(c)
  /\ Len(wire[c]) = Len(chan[c])
  /\ receiver' = [receiver EXCEPT ![c] = "dropped"]
  /\ UNCHANGED <<wire, scenario, registry, locks, pc, locals, panicked,
                 bounded, hist>>

RelayEnd(c) ==
  /\ Relaying(c)
  /\ Len(wire[c]) = Len(chan[c])
  /\ c \notin { connected_users[id].sender : id \in DOMAIN connected_users }
  /\ receiver' = [receiver EXCEPT ![c] = "dropped"]
  /\ UNCHANGED <<wire, scenario, registry, locks, pc, locals, panicked,
                 bounded, hist>>

NextRelay ==
  \E c \in Conns :
    \/ \E line \in ApiNickLines : StartJoin(c, line)
    \/ JoinLock(c)
    \/ JoinCheckDup(c)
    \/ JoinRoster(c)
    \/ JoinBroadcast(c)
    \/ NewSessionIdLock(c)
    \/ NewSessionIdInc(c)
    \/ JoinInsert(c)
    \/ \E line \in ApiChatLines : ReadLine(c, line)
    \/ SendLock(c)
    \/ SendBody(c)
    \/ Disconnect(c)
    \/ LeaveLock(c)
    \/ LeaveBody(c)
    \/ RelayWrite(c)
    \/ RelayEnd(c)

\* The relay threads keep running too; write! is taken to return.
FairRelay ==
  /\ Init /\ [][NextRelay]_vars
  /\ Fairness
  /\ \A c \in Conns : WF_vars(RelayWrite(c) \/ RelayEnd(c))

\* ================================================================= claims
Range(f) == { f[x] : x \in DOMAIN f }

\* The records of the table, and the connections whose sender a record holds.
Registered == DOMAIN connected_users
RegisteredConns == { connected_users[id].sender : id \in Registered }

\* The deliveries operation number o made on the channel of d, in order.
OpDeliveries(ch, d, o) == SelectSeq(ch[d], LAMBDA x : x.op = o)

\* C1: in every reachable state, no two records of the membership table
\* carry the same nickname (exact, case-sensitive equality).
UniqueNicknames ==
  \A i, j \in Registered :
    i # j => connected_users[i].nickname # connected_users[j].nickname

\* bob and Bob are registered together, and a join under a registered
\* nickname has been refused.
UniqueNicknamesWitness ==
  /\ \E i, j \in Registered :
       /\ connected_users[i].nickname = bob
       /\ connected_users[j].nickname = Bob
  /\ \E c \in Conns : result[c] = "DuplicateNickname"

\* The pairs of overlapping joins whose two calls have returned, under a
\* nickname that no third connection has used.
DecidedRaces ==
  { pair \in raced :
      /\ \A c \in pair : result[c] # "none"
      /\ \A c \in pair : \A e \in Conns \ pair : nickname[e] # nickname[c] }

\* C2, as claimed: when two connections call join concurrently with the
\* same valid nickname, not registered beforehand, exactly one call
\* succeeds and the other returns DuplicateNickname.
RaceExactlyOneSucceeds ==
  \A pair \in DecidedRaces :
    { result[c] : c \in pair } = {"Ok", "DuplicateNickname"}

\* C2, amended: the two calls never both fail, a call that fails returns
\* DuplicateNickname, and the two are never registered together; so exactly
\* one succeeds unless the first to succeed has left the room before the
\* other takes the table's mutex.
RaceNeverBothFailNorBothRegistered ==
  \A pair \in DecidedRaces :
    /\ \E c \in pair : result[c] = "Ok"
    /\ \A c \in pair : result[c] \in {"Ok", "DuplicateNickname"}
    /\ \E c \in pair : session[c] \notin Registered

\* Two joins raced under one nickname; one is registered and the other was
\* refused as a duplicate.
RaceWitness ==
  \E pair \in DecidedRaces :
    \E c, d \in pair :
      /\ result[c] = "Ok" /\ session[c] \in Registered
      /\ result[d] = "DuplicateNickname"

\* The positions at which a thread holds the connected_users mutex.
CriticalPcs == {"join_dup", "join_roster", "join_bcast", "new_session_id",
                "session_count_inc", "join_insert", "send_body", "leave_body"}

\* At most one thread is inside a registry operation, and it is the holder
\* of the mutex.
MutualExclusion ==
  /\ \A c, d \in Conns : pc[c] \in CriticalPcs /\ pc[d] \in CriticalPcs => c = d
  /\ \A c \in Conns : pc[c] \in CriticalPcs <=> users_lock = c

\* Whenever no operation is in progress, the table, the counter and every
\* channel are what the operations returned so far give when run one after
\* the other, each alone, in the order in which they returned.
SequentialOutcome ==
  /\ seq.ok
  /\ panicked = {}
  /\ users_lock = 0 =>
       /\ connected_users = seq.users
       /\ session_count = seq.count
       /\ chan = seq.chan

\* A step taken while a thread c stays inside its operation (a step of
\* another thread) changes neither the table nor any channel.
NoInterference ==
  \A c \in Conns :
    pc[c] \in CriticalPcs /\ pc'[c] = pc[c] =>
      UNCHANGED <<connected_users, session_count, chan>>

\* C3: the registry operations are atomic with respect to each other: from
\* the roster of a join to its insert no other operation changes the table
\* or delivers a message, and every concurrent execution leaves the table
\* and the channels that a sequential execution of the same operations
\* leaves.
OperationsAtomic ==
  /\ [](MutualExclusion /\ SequentialOutcome)
  /\ [][NoInterference]_vars

\* A join has sent its ConnectedUsers and Joined messages and is about to
\* insert, while a registered thread waits to leave and another to send.
OperationsAtomicWitness ==
  \E c, d, e \in Conns :
    /\ pc[c] = "join_insert"
    /\ pc[d] = "leave_lock" /\ session[d] \in Registered
    /\ pc[e] = "send_lock" /\ session[e] \in Registered

\* The characters [A-Za-z0-9], and the nicknames made of one or more of them.
Alphanumerics == (48..57) \cup (65..90) \cup (97..122)
WellFormed(nick) ==
  nick # <<>> /\ \A i \in DOMAIN nick : nick[i] \in Alphanumerics

\* The step in which chat hands an ill-formed nickname to join: join
\* returns InvalidNickname, the connection ends without a session, and the
\* table, the counter and the channels are unchanged.
InvalidJoinStep ==
  \A c \in Conns :
    \A line \in NickLines :
      StartJoin(c, line) /\ ~WellFormed(Trim(line)) =>
        /\ result'[c] = "InvalidNickname"
        /\ pc'[c] = "ended"
        /\ session'[c] = 0
        /\ UNCHANGED <<connected_users, session_count, chan>>

\* C4: for every nickname that is empty or holds a character outside
\* [A-Za-z0-9] (non-ASCII letters and digits too), join returns
\* InvalidNickname and the membership table is unchanged, whatever the
\* table holds; no record ever carries such a nickname.
InvalidNicknameRefused ==
  /\ [][InvalidJoinStep]_vars
  /\ [](\A id \in Registered : WellFormed(connected_users[id].nickname))

\* Two participants are registered and a join was refused for its
\* nickname's characters.
InvalidNicknameWitness ==
  /\ Cardinality(Registered) = 2
  /\ \E c \in Conns : result[c] = "InvalidNickname"

\* The step in which join, holding the mutex, finds its nickname on a
\* record: it returns DuplicateNickname and the table, the counter and the
\* channels are unchanged.
DuplicateJoinStep ==
  \A c \in Conns :
    /\ pc[c] = "join_dup"
    /\ pc'[c] # "join_dup"
    /\ \E id \in Registered : connected_users[id].nickname = nickname[c]
    => /\ result'[c] = "DuplicateNickname"
       /\ pc'[c] = "ended"
       /\ session'[c] = 0
       /\ UNCHANGED <<connected_users, session_count, chan>>

\* C5: for every valid nickname equal to the nickname of a record in the
\* table, join returns DuplicateNickname and the table is unchanged: no
\* record is inserted and no session identity is bound.
DuplicateNicknameRefused ==
  /\ [][DuplicateJoinStep]_vars
  /\ [](\A c \in Conns :
          result[c] = "DuplicateNickname" =>
            session[c] = 0 /\ c \notin RegisteredConns)

\* A join was refused as a duplicate while two participants are registered.
DuplicateNicknameWitness ==
  /\ Cardinality(Registered) = 2
  /\ \E c \in Conns :
       /\ result[c] = "DuplicateNickname"
       /\ \E id \in Registered : connected_users[id].nickname = nickname[c]

\* The messages of type t in a sequence of deliveries.
OfType(deliveries, t) == SelectSeq(deliveries, LAMBDA x : x.msg.type = t)

\* The step in which join returns Ok: by then the joiner's channel got, from
\* this join, one ConnectedUsers whose roster is the set of nicknames of the
\* table before the insert and nothing else, it holds no other
\* ConnectedUsers, and from this join every participant registered before
\* got one Joined(n) and every other channel nothing.
SuccessfulJoinStep ==
  \A c \in Conns :
    pc[c] = "join_insert" /\ pc'[c] # "join_insert" =>
      LET mine == OpDeliveries(chan', c, op[c])
      IN /\ result'[c] = "Ok"
         /\ Len(mine) = 1
         /\ mine[1].msg.type = "ConnectedUsers"
         /\ Range(mine[1].msg.users) =
              { connected_users[id].nickname : id \in Registered }
         /\ Len(mine[1].msg.users) = Cardinality(Registered)
         /\ nickname[c] \notin Range(mine[1].msg.users)
         /\ Len(OfType(chan'[c], "ConnectedUsers")) = 1
         /\ \A d \in Conns \ {c} :
              OpDeliveries(chan', d, op[c]) =
                IF d \in RegisteredConns
                THEN <<Delivery(Joined(nickname[c]), op[c])>>
                ELSE <<>>

\* C6: a successful join(n, sink) delivers to sink exactly one
\* ConnectedUsers whose roster is, as a set, the nicknames registered just
\* before the join, delivers exactly one Joined(n) to every participant
\* registered before the join, and no Joined(n) to the joiner.
JoinDelivers == [][SuccessfulJoinStep]_vars

\* A third participant has joined a room of two: its roster names both, and
\* both have its Joined as their latest message.
JoinDeliversWitness ==
  \E c \in Conns :
    /\ pc[c] = "chatting"
    /\ Len(chan[c]) = 1
    /\ Len(chan[c][1].msg.users) = 2
    /\ \A d \in Conns \ {c} :
         /\ chan[d] # <<>>
         /\ chan[d][Len(chan[d])] = Delivery(Joined(nickname[c]), op[c])

\* The step in which send_message of a registered session returns: every
\* other registered participant got one Chat more, from the sender's
\* nickname and with the text of the call, and no other channel changed.
SendStep ==
  \A c \in Conns :
    pc[c] = "send_body" /\ pc'[c] # "send_body" /\ session[c] \in Registered =>
      /\ \A d \in Conns :
           chan'[d] =
             IF d \in RegisteredConns /\ d # c
             THEN Append(chan[d],
                         Delivery(ChatMessage(nickname[c], text[c]), op[c]))
             ELSE chan[d]
      /\ UNCHANGED <<connected_users, session_count, panicked>>

\* C7: send_message(s, text) by a registered session delivers exactly one
\* Chat to every other registered participant, from s's nickname and with
\* the text unmodified (the empty one too), nothing to s's own sink and
\* nothing to a sink that is not registered.
SendDelivers == [][SendStep]_vars

\* A participant has sent the empty text and the two others have it as
\* their latest message.
SendDeliversWitness ==
  \E c \in Conns :
    /\ pc[c] = "chatting"
    /\ c \in RegisteredConns
    /\ \A d \in Conns \ {c} :
         /\ d \in RegisteredConns
         /\ chan[d][Len(chan[d])] =
              Delivery(ChatMessage(nickname[c], <<>>), op[c])

\* The step in which leave of a registered session returns: its record is
\* gone and the other records are as before, every participant that
\* remains got one Left(n) more, and no other channel changed.
LeaveStep ==
  \A c \in Conns :
    pc[c] = "leave_body" /\ pc'[c] # "leave_body" /\ session[c] \in Registered =>
      LET rest == Registered \ {session[c]}
          n == connected_users[session[c]].nickname
      IN /\ DOMAIN connected_users' = rest
         /\ \A id \in rest : connected_users'[id] = connected_users[id]
         /\ \A d \in Conns :
              chan'[d] =
                IF \E id \in rest : connected_users[id].sender = d
                THEN Append(chan[d], Delivery(Left(n), op[c]))
                ELSE chan[d]
         /\ UNCHANGED <<session_count, panicked>>

\* The step in which send_message returns for a session that is not in the
\* table: nothing is delivered, nothing changes, nothing unwinds.
SendUnregisteredStep ==
  \A c \in Conns :
    pc[c] = "send_body" /\ pc'[c] # "send_body" /\ session[c] \notin Registered =>
      UNCHANGED <<connected_users, session_count, chan, panicked>>

\* C8: leave(s) of a registered session with nickname n removes its record
\* and delivers exactly one Left(n) to every participant that remains; a
\* send_message(s, ...) executed after that leave delivers nothing and
\* raises no error.
LeaveDelivers == [][LeaveStep /\ SendUnregisteredStep]_vars

\* A participant left, another one got its Left, and the one that left
\* then sent a line through the handle of its old session.
LeaveDeliversWitness ==
  \E c, d \in Conns :
    /\ pc[c] = "chatting"
    /\ session[c] = session_id[c]
    /\ session[c] \notin Registered
    /\ d \in RegisteredConns
    /\ chan[d][Len(chan[d])].msg = Left(nickname[c])
    /\ op[c] > chan[d][Len(chan[d])].op

\* The step in which leave returns for a session that is not in the table:
\* nothing is delivered, nothing changes, nothing unwinds.
LeaveUnregisteredStep ==
  \A c \in Conns :
    pc[c] = "leave_body" /\ pc'[c] # "leave_body" /\ session[c] \notin Registered =>
      UNCHANGED <<connected_users, session_count, chan, panicked>>

\* The operations that delivered a Left.
LeftBroadcasts ==
  { x.op : x \in UNION { Range(OfType(chan[d], "Left")) : d \in Conns } }

\* C9: leave is idempotent: a second leave(s), or a leave of an identity
\* that was never registered, changes nothing in the table and delivers no
\* message; so there are never more Left broadcasts than sessions that have
\* left.
LeaveIdempotent ==
  /\ [][LeaveUnregisteredStep]_vars
  /\ [](Cardinality(LeftBroadcasts) <= session_count - Cardinality(Registered))

\* A participant left, another one got its Left as its latest message, and
\* the one that left has since called leave again for the same session.
LeaveIdempotentWitness ==
  \E c, d \in Conns :
    /\ pc[c] = "ended"
    /\ session[c] = session_id[c]
    /\ session[c] # 0
    /\ d \in RegisteredConns
    /\ chan[d][Len(chan[d])].msg = Left(nickname[c])
    /\ op[c] > chan[d][Len(chan[d])].op

\* C10: join, leave and chat events are seen in one total order: two
\* messages delivered to two sinks appear in the same order in both, and
\* that order is the order in which their operations took the mutex.
TotalOrder ==
  \A p \in Conns :
    \A i \in 1..Len(chan[p]) :
      \A j \in (i + 1)..Len(chan[p]) :
        /\ chan[p][i].op < chan[p][j].op
        /\ \A q \in Conns :
             q > p =>
               \A k \in DOMAIN chan[q] :
                 chan[q][k].op = chan[p][i].op =>
                   \A l \in DOMAIN chan[q] :
                     chan[q][l].op = chan[p][j].op => k < l

\* Two sinks both hold the Joined of a third participant followed by a Chat
\* from it.
TotalOrderWitness ==
  \E p, q \in Conns :
    /\ p # q
    /\ \E i, j \in DOMAIN chan[p] :
         \E k, l \in DOMAIN chan[q] :
           /\ i < j /\ k < l
           /\ chan[p][i] = chan[q][k] /\ chan[p][i].msg.type = "Joined"
           /\ chan[p][j] = chan[q][l] /\ chan[p][j].msg.type = "Message"

\* ------------------------------------------------------------------- C11
\* The calls in progress, and those whose turn in the numbering of the
\* connections has come.
InCall == JoinPcs \cup {"send_lock", "send_body", "leave_lock", "leave_body"}
Admitted(c) == pc[c] = "join_lock" => Earlier(c)

\* Every exit of chat's Ok arm calls leave; leave is only ever called by
\* the owner of a registered session, from that arm; a thread that has
\* called it calls nothing again.
LeaveOnDropStep ==
  \A c \in Conns :
    /\ pc[c] = "chatting" /\ pc'[c] \notin {"chatting", "send_lock"} =>
         pc'[c] = "leave_lock"
    /\ pc[c] # "leave_lock" /\ pc'[c] = "leave_lock" =>
         /\ pc[c] = "chatting"
         /\ result[c] = "Ok"
         /\ session[c] \in Registered
         /\ connected_users[session[c]].sender = c
    /\ pc[c] = "ended" => pc'[c] = "ended"

\* One handle per session, held by the thread whose join returned it; a
\* join that failed left no handle and its thread ended without a leave.
OneHandle ==
  /\ \A c, d \in Conns : c # d /\ session[c] # 0 => session[c] # session[d]
  /\ \A id \in Registered :
       session[connected_users[id].sender] = id
  /\ \A c \in Conns :
       result[c] \in {"InvalidNickname", "DuplicateNickname"} =>
         session[c] = 0 /\ pc[c] = "ended" /\ c \notin RegisteredConns

\* The leave of c has returned: its record is gone and every participant
\* that remains holds its Left.
HasLeft(c) ==
  /\ pc[c] = "ended"
  /\ session[c] \notin Registered
  /\ \A d \in RegisteredConns :
       \E i \in DOMAIN chan[d] :
         chan[d][i] = Delivery(Left(nickname[c]), op[c])

\* C11: every session got from a successful join triggers leave exactly
\* once, on every exit path of its owner; a handle is not duplicated and a
\* failed join makes none and triggers no leave; so, under fairness, every
\* participant whose connection ends is eventually removed from the table
\* and the others get its Left.
LeaveOnDrop ==
  /\ [][LeaveOnDropStep]_vars
  /\ []OneHandle
  /\ \A c \in Conns : (pc[c] = "leave_lock") ~> HasLeft(c)

\* A participant's connection ended while two others were registered, and
\* both hold its Left.
LeaveOnDropWitness ==
  \E c \in Conns :
    /\ HasLeft(c)
    /\ result[c] = "Ok"
    /\ Cardinality(RegisteredConns) = 2

\* ------------------------------------------------------------------- C12
\* The positions at which a thread waits for the connected_users mutex.
WaitingPcs == {"join_lock", "send_lock", "leave_lock"}

\* session_count is only locked by the holder of connected_users, and a
\* thread that is not inside an operation holds no mutex.
LockOrder ==
  /\ count_lock # 0 => users_lock = count_lock
  /\ \A c \in Conns :
       pc[c] \notin CriticalPcs => users_lock # c /\ count_lock # c

\* While a call is in progress some thread can take a step.
SomeThreadRuns ==
  (\E c \in Conns : pc[c] \in InCall /\ Admitted(c)) =>
    \E c \in Conns : ENABLED (ThreadStep(c) \/ LockStep(c))

\* C12: the registry cannot deadlock: under fair scheduling every call of
\* join, leave and send_message gets the mutex, completes and releases it,
\* whatever the other threads call, with join's nested lock of
\* session_count and with sinks that are never drained or are closed.
NoDeadlock ==
  /\ [](LockOrder /\ SomeThreadRuns)
  /\ \A c \in Conns :
       /\ (pc[c] \in WaitingPcs /\ Admitted(c)) ~> (users_lock = c)
       /\ (pc[c] \in InCall /\ Admitted(c)) ~>
            (pc[c] \notin InCall /\ users_lock # c /\ count_lock # c)

\* A join holds both mutexes while the owner of a registered, closed sink
\* waits to send and a third thread waits to join.
NoDeadlockWitness ==
  \E c, d, e \in Conns :
    /\ pc[c] = "session_count_inc"
    /\ pc[d] = "send_lock"
    /\ d \in RegisteredConns /\ receiver[d] = "closed"
    /\ pc[e] = "join_lock"

\* ------------------------------------------------------------------- C13
\* The channel of d with one more delivery when its receiver lives, as it
\* was when the receiver is gone.
Sent(d, m, o) ==
  IF receiver[d] = "open" THEN Append(chan[d], Delivery(m, o)) ELSE chan[d]

\* The steps of join, send_message and leave when some sinks are closed:
\* each goes on as with open sinks, changes the table as with open sinks,
\* and sends to every record whose sink is open.
ClosedSinkStep ==
  \A c \in Conns :
    /\ pc[c] = "join_roster" /\ pc'[c] # "join_roster" =>
         /\ pc'[c] = "join_bcast"
         /\ \E order \in Orderings(Registered) :
              chan'[c] = Sent(c, ConnectedUsers(Nicknames(connected_users,
                                                          order)), op[c])
         /\ UNCHANGED <<connected_users, panicked>>
    /\ pc[c] = "join_bcast" /\ pc'[c] # "join_bcast" =>
         /\ pc'[c] = "new_session_id"
         /\ \A d \in Conns :
              chan'[d] = IF d \in RegisteredConns
                         THEN Sent(d, Joined(nickname[c]), op[c])
                         ELSE chan[d]
         /\ UNCHANGED <<connected_users, panicked>>
    /\ pc[c] = "join_insert" /\ pc'[c] # "join_insert" =>
         /\ result'[c] = "Ok"
         /\ connected_users' =
              Insert(connected_users, session_id[c],
                     [nickname |-> nickname[c], sender |-> c])
         /\ UNCHANGED <<chan, panicked>>
    /\ pc[c] = "send_body" /\ pc'[c] # "send_body"
         /\ session[c] \in Registered =>
         /\ \A d \in Conns :
              chan'[d] = IF d \in RegisteredConns /\ d # c
                         THEN Sent(d, ChatMessage(nickname[c], text[c]), op[c])
                         ELSE chan[d]
         /\ UNCHANGED <<connected_users, panicked>>
    /\ pc[c] = "leave_body" /\ pc'[c] # "leave_body"
         /\ session[c] \in Registered =>
         /\ connected_users' = Remove(connected_users, session[c])
         /\ \A d \in Conns :
              chan'[d] = IF d \in RegisteredConns /\ d # c
                         THEN Sent(d, Left(nickname[c]), op[c])
                         ELSE chan[d]
         /\ UNCHANGED panicked

\* A record leaves the table only in the leave of its own session.
RemovedByLeaveOnly ==
  \A id \in Registered :
    id \notin DOMAIN connected_users' =>
      \E c \in Conns : pc[c] = "leave_body" /\ session[c] = id

\* C13: a send that fails on a closed sink is swallowed in join, leave and
\* send_message: the operation returns what it returns and changes the
\* table as it does when every send succeeds (a join whose own sink is
\* closed still inserts its record and returns Ok), every other registered
\* sink still gets its message, and the record of the closed sink stays.
ClosedSinkSwallowed ==
  /\ [][ClosedSinkStep /\ RemovedByLeaveOnly]_vars
  /\ [](panicked = {} /\ seq.ok)

\* A participant joined with its sink already closed and is registered; a
\* second participant left and a third, still registered, holds its Left.
ClosedSinkWitness ==
  \E c, d, e \in Conns :
    /\ receiver[c] = "closed" /\ chan[c] = <<>>
    /\ result[c] = "Ok" /\ c \in RegisteredConns
    /\ e \in RegisteredConns /\ e # c
    /\ pc[d] = "ended" /\ result[d] = "Ok" /\ op[d] > op[c]
    /\ chan[e][Len(chan[e])] = Delivery(Left(nickname[d]), op[d])

\* ------------------------------------------------------------------- C14
\* The messages delivered on the channel of d, in order.
Messages(d) == [i \in DOMAIN chan[d] |-> chan[d][i].msg]

\* What the sinks of A (connection 1) and B (connection 2) hold after the
\* first k calls of Scenario have returned.
ScenarioSinkA(k) ==
  IF k = 0 THEN <<>>
  ELSE IF k = 1 THEN <<ConnectedUsers(<<>>)>>
  ELSE IF k \in {2, 3} THEN <<ConnectedUsers(<<>>), Joined(bob)>>
  ELSE <<ConnectedUsers(<<>>), Joined(bob), Left(bob)>>

ScenarioSinkB(k) ==
  IF k \in {0, 1} THEN <<>>
  ELSE IF k = 2 THEN <<ConnectedUsers(<<alice>>)>>
  ELSE <<ConnectedUsers(<<alice>>), ChatMessage(alice, <<104, 105>>)>>

\* The nicknames of the table after the first k calls of Scenario.
ScenarioRoom(k) ==
  IF k = 0 THEN {}
  ELSE IF k \in {2, 3} THEN {alice, bob}
  ELSE {alice}

\* C14: from an empty room, alice (A) joins, bob (B) joins, A sends "hi", B
\* leaves, A sends "yo"; then A's sink holds ConnectedUsers([]),
\* Joined("bob"), Left("bob") in that order, B's sink holds
\* ConnectedUsers(["alice"]), Chat("alice","hi") in that order, A's second
\* send delivers to nobody and raises no error, and the table holds alice
\* only.  The same is checked after each call of the scenario.
ScenarioTrace ==
  scenario >= 0 /\ Quiet =>
    /\ Messages(1) = ScenarioSinkA(scenario)
    /\ Messages(2) = ScenarioSinkB(scenario)
    /\ \A d \in Conns \ {1, 2} : chan[d] = <<>>
    /\ { connected_users[id].nickname : id \in Registered } =
         ScenarioRoom(scenario)
    /\ Cardinality(Registered) = Cardinality(ScenarioRoom(scenario))
    /\ panicked = {}
    /\ scenario = Len(Scenario) =>
         /\ op[1] = Len(Scenario)
         /\ \A d \in Conns : OpDeliveries(chan, d, op[1]) = <<>>

\* The five calls of the scenario have been made and have returned.
ScenarioTraceWitness == scenario = Len(Scenario) /\ Quiet

\* ------------------------------------------------------------------- C15
\* The identities bound to a session handle so far: those registered now or
\* before (a thread keeps the id of its session after the leave).
EverRegistered == { session[c] : c \in Conns } \ {0}

\* A step changes the table in one of two ways only: the return of a
\* successful join inserts one record under an identity above every
\* identity registered before, and the leave of a session removes that
\* session's record; no record is ever altered, and send_message leaves
\* the table alone.
IdentityStep ==
  /\ \A id \in DOMAIN connected_users' \ Registered :
       /\ \E c \in Conns :
            /\ pc[c] = "join_insert" /\ pc'[c] = "chatting"
            /\ result'[c] = "Ok"
            /\ session_id[c] = id /\ session'[c] = id
       /\ DOMAIN connected_users' = Registered \cup {id}
       /\ id \notin EverRegistered
       /\ \A old \in EverRegistered : old < id
  /\ \A id \in Registered \ DOMAIN connected_users' :
       /\ \E c \in Conns :
            pc[c] = "leave_body" /\ pc'[c] = "ended" /\ session[c] = id
       /\ DOMAIN connected_users' = Registered \ {id}
  /\ \A id \in Registered \cap DOMAIN connected_users' :
       connected_users'[id] = connected_users[id]
  /\ \A c \in Conns :
       pc[c] \in {"send_lock", "send_body"} /\ pc'[c] # pc[c] =>
         UNCHANGED connected_users

\* Every record was registered through a handle, under an identity that
\* new_session_id has issued.
IdentitiesIssued ==
  /\ Registered \subseteq EverRegistered
  /\ \A id \in EverRegistered : id \in 1..session_count

\* C15: an identity goes Unregistered -> Registered -> Removed and nothing
\* else: only a successful join puts an identity into the table, a fresh
\* one that differs from every identity issued before, live or removed, so
\* that a removed identity is never registered again; only leave removes a
\* record; send_message never inserts, removes or alters a record.
IdentityLifecycle ==
  /\ [][IdentityStep]_vars
  /\ []IdentitiesIssued

\* The first session has left, and its nickname is registered again, in an
\* empty room, under the second identity.
IdentityLifecycleWitness ==
  \E c, d \in Conns :
    /\ session[c] = 1 /\ pc[c] = "ended"
    /\ session[d] = 2 /\ session[d] \in Registered
    /\ nickname[d] = nickname[c]
    /\ Messages(d) = <<ConnectedUsers(<<>>)>>

\* ------------------------------------------------------------------- C16
\* The roster a participant works out from the messages of its sink: the
\* roster of its ConnectedUsers, plus the nickname of each later Joined,
\* minus the nickname of each later Left.
RECURSIVE Reconstruct(_, _)
Reconstruct(msgs, roster) ==
  IF msgs = <<>> THEN roster
  ELSE LET m == Head(msgs)
       IN Reconstruct(Tail(msgs),
                      IF m.type = "ConnectedUsers" THEN Range(m.users)
                      ELSE IF m.type = "Joined" THEN roster \cup {m.nick}
                      ELSE IF m.type = "Left" THEN roster \ {m.nick}
                      ELSE roster)

\* C16: for every registered participant p, in every state between registry
\* operations, the roster p reconstructs from its own sink is the set of
\* nicknames of the membership table other than p's own.
RosterReconstructed ==
  users_lock = 0 =>
    \A id \in Registered :
      Reconstruct(Messages(connected_users[id].sender), {}) =
        { connected_users[other].nickname : other \in Registered \ {id} }

\* Between operations, a participant registered with one other holds a
\* Left and two Joined after its ConnectedUsers, and a chat line.
RosterReconstructedWitness ==
  /\ users_lock = 0
  /\ Cardinality(Registered) = 2
  /\ \E p \in RegisteredConns :
       /\ Len(OfType(chan[p], "Joined")) = 2
       /\ Len(OfType(chan[p], "Left")) = 1
       /\ Len(OfType(chan[p], "Message")) = 1

\* ------------------------------------------------------------------- C17
JoinErrors == {"InvalidNickname", "DuplicateNickname"}

\* The step in which a join returns an error delivers nothing and leaves
\* the table and the counter as they were.
FailedJoinStep ==
  \A c \in Conns :
    result[c] = "none" /\ result'[c] \in JoinErrors =>
      UNCHANGED <<connected_users, session_count, chan>>

\* A join that returned an error has delivered nothing from its call to
\* its return: its caller's sink is empty, no sink holds a message of that
\* join, and no record holds the caller's sender.
FailedJoinDeliveredNothing ==
  \A c \in Conns :
    result[c] \in JoinErrors =>
      /\ chan[c] = <<>>
      /\ \A d \in Conns : \A i \in DOMAIN chan[d] :
           /\ chan[d][i].op # op[c]
           /\ chan[d][i].op # 0
      /\ session[c] = 0
      /\ c \notin RegisteredConns

\* C17: a failed join (InvalidNickname or DuplicateNickname) delivers no
\* message to any sink: no ConnectedUsers reaches the caller's sink, no
\* Joined reaches a registered participant, and no session identity is
\* taken into the table.
FailedJoinSilent ==
  /\ [][FailedJoinStep]_vars
  /\ []FailedJoinDeliveredNothing

\* A join was refused as a duplicate and another for its characters, while
\* the participant whose nickname was asked for again holds nothing but its
\* ConnectedUsers.
FailedJoinSilentWitness ==
  \E c, d, e \in Conns :
    /\ result[c] = "DuplicateNickname"
    /\ result[d] = "InvalidNickname"
    /\ e \in RegisteredConns /\ nickname[e] = nickname[c]
    /\ Len(chan[e]) = 1

\* ------------------------------------------------------------------- C18
\* The types of the messages delivered on the channel of d, in order.
Types(d) == [i \in DOMAIN chan[d] |-> chan[d][i].msg.type]

\* A sink that holds anything holds a ConnectedUsers first and no other
\* ConnectedUsers.
ConnectedUsersLeads ==
  \A c \in Conns :
    chan[c] # <<>> =>
      /\ chan[c][1].msg.type = "ConnectedUsers"
      /\ \A i \in 2..Len(chan[c]) : chan[c][i].msg.type # "ConnectedUsers"

\* The first delivery on a channel is made by the join of the channel's own
\* thread, and every delivery extends the channel at its end.
FirstDeliveryStep ==
  \A c \in Conns :
    chan'[c] # chan[c] =>
      /\ Len(chan'[c]) = Len(chan[c]) + 1
      /\ SubSeq(chan'[c], 1, Len(chan[c])) = chan[c]
      /\ chan[c] = <<>> =>
           /\ pc[c] = "join_roster"
           /\ chan'[c][1].msg.type = "ConnectedUsers"

\* C18: the first message delivered to a participant's sink is its
\* ConnectedUsers, the only one the sink ever gets; no Joined, Left or
\* Chat is delivered to a sink before its ConnectedUsers, whatever the
\* other participants do meanwhile.
ConnectedUsersFirst ==
  /\ []ConnectedUsersLeads
  /\ [][FirstDeliveryStep]_vars

\* A sink holds a ConnectedUsers followed by a Chat, a Joined and a Left.
ConnectedUsersFirstWitness ==
  \E c \in Conns :
    Types(c) = <<"ConnectedUsers", "Message", "Joined", "Left">>

\* ------------------------------------------------------------------- C19
\* A Joined, Left or Chat is delivered only to a sink whose record is in
\* the table before and after the delivery; the one message a sink gets
\* without a record is the ConnectedUsers of its own join, which ends with
\* the insert.  The sink of a thread that has left gets nothing.
RegisteredDeliveryStep ==
  \A d \in Conns :
    chan'[d] # chan[d] =>
      /\ pc[d] # "ended"
      /\ IF chan'[d][Len(chan'[d])].msg.type = "ConnectedUsers"
         THEN pc[d] = "join_roster"
         ELSE /\ session[d] \in Registered
              /\ session[d] \in DOMAIN connected_users'
              /\ connected_users[session[d]].sender = d

\* The sink of a participant that has left holds nothing sent by its leave
\* or by a later operation, and so not the Left of its own departure.
NothingAfterLeave ==
  \A c \in Conns :
    pc[c] = "ended" /\ result[c] = "Ok" =>
      /\ session[c] \notin Registered
      /\ \A i \in DOMAIN chan[c] :
           /\ chan[c][i].op < op[c]
           /\ chan[c][i].msg # Left(nickname[c])

\* C19: a sink gets messages only while its record is in the table: once
\* leave has removed a participant, no Joined, Left or Chat is delivered
\* to its sink again, and a participant never gets the Left of its own
\* departure.
OnlyWhileRegistered ==
  /\ [][RegisteredDeliveryStep]_vars
  /\ []NothingAfterLeave

\* A participant that got a message while registered has left, and the two
\* that remain have since got a Chat that it did not get.
OnlyWhileRegisteredWitness ==
  \E c, d \in Conns :
    /\ pc[c] = "ended" /\ result[c] = "Ok"
    /\ Len(chan[c]) >= 2
    /\ d \in RegisteredConns
    /\ chan[d][Len(chan[d])].msg.type = "Message"
    /\ chan[d][Len(chan[d])].op > op[c]

\* ------------------------------------------------------------------- C20
\* The relay loop of c has ended.
RelayEnded(c) == result[c] = "Ok" /\ receiver[c] = "dropped"

\* What a relay thread wrote is a prefix of what was delivered on its
\* channel, in delivery order; one that ended wrote all of it, and its
\* participant is no longer registered.  After a failed join there is no
\* relay thread and the channel, empty, is gone.
RelayInOrder ==
  \A c \in Conns :
    /\ Len(wire[c]) <= Len(chan[c])
    /\ wire[c] = SubSeq(chan[c], 1, Len(wire[c]))
    /\ RelayEnded(c) =>
         /\ wire[c] = chan[c]
         /\ session[c] \notin Registered
         /\ pc[c] = "ended"
    /\ session[c] \in Registered => receiver[c] = "open"
    /\ result[c] \in JoinErrors =>
         receiver[c] = "dropped" /\ chan[c] = <<>> /\ wire[c] = <<>>

\* The relay thread writes one message at a time, the oldest not yet
\* written, and nothing is delivered on a channel whose relay has ended.
RelayStep ==
  \A c \in Conns :
    /\ wire'[c] # wire[c] =>
         wire'[c] = Append(wire[c], chan[c][Len(wire[c]) + 1])
    /\ RelayEnded(c) => chan'[c] = chan[c] /\ wire'[c] = wire[c]

\* C20: the registry holds the only sender of a participant's channel, so
\* the channel is closed by the participant's leave (or by a failed join):
\* the relay loop of the connection writes out every message delivered
\* before the leave, in delivery order, and then ends; it does not end
\* while the participant is registered.
RelayDrains ==
  /\ []RelayInOrder
  /\ [][RelayStep]_vars
  /\ \A c \in Conns :
       (pc[c] = "ended" /\ result[c] = "Ok") ~>
         (RelayEnded(c) /\ wire[c] = chan[c])

\* A relay loop has ended after writing three messages or more, while the
\* relay of a registered participant has a message yet to write.
RelayDrainsWitness ==
  \E c, d \in Conns :
    /\ RelayEnded(c) /\ Len(wire[c]) >= 3
    /\ d \in RegisteredConns /\ Len(wire[d]) < Len(chan[d])

====
